---- MODULE Spec2Model ----
(***************************************************************************)
(* A model of main.py of selaere/wincompose: the derivation of compose     *)
(* key sequences (getmap / findmap), the escaping codec, rule emission     *)
(* with duplicate and shadow detection (add_rule / write_to_file), and the *)
(* sorted definitions file (sort / read_from_file).                        *)
(*                                                                         *)
(* A Python str is modelled as a sequence of one-character tokens.  A      *)
(* token is a TLA+ string: a letter stands for itself, any other character *)
(* has a short name (see Ord for the code point of each).                  *)
(***************************************************************************)
EXTENDS Integers, Sequences, FiniteSets, TLC

(* ---------------------------------------------------------------------- *)
(* Characters                                                             *)
(* ---------------------------------------------------------------------- *)

\* the code point of every character of the model (Python's ord)
Ord ==
    [ SP      |-> 32,     \* " "   the marker of ESCAPE
      HASH    |-> 35,     \* "#"
      AMP     |-> 38,     \* "&"   the marker of LIGATURE
      LPAR    |-> 40,     \* "("
      RPAR    |-> 41,     \* ")"
      STAR    |-> 42,     \* "*"
      SLASH   |-> 47,     \* "/"
      COLON   |-> 58,     \* ":"
      QM      |-> 63,     \* "?"   COMBINING
      AT      |-> 64,     \* "@"
      A       |-> 65,
      B       |-> 66,
      CARET   |-> 94,     \* "^"
      UNDER   |-> 95,     \* "_"
      a       |-> 97,
      b       |-> 98,
      COPY    |-> 169,    \* U+00A9, one of the characters findmap gives up on
      Auml    |-> 196,    \* U+00C4, NFD = A + U+0308
      auml    |-> 228,    \* U+00E4, NFD = a + U+0308
      LIG     |-> 339,    \* U+0153, a character of the ligature table
      adm     |-> 479,    \* U+01DF, NFD = a + U+0308 + U+0304
      MACR    |-> 772,    \* U+0304 combining macron
      DIAER   |-> 776,    \* U+0308 combining diaeresis
      RET     |-> 8629,   \* U+21B5, closes ESCAPE2 and LIGATURE
      TAB     |-> 8633,   \* U+21B9, opens ESCAPE2
      OPENBOX |-> 9251,   \* U+2423, stands for a space in the definitions file
      PARENA  |-> 9372,   \* U+249C, <compat> 0028 0061 0029
      CIRCA   |-> 9424,   \* U+24D0, <circle> 0061
      DOTTED  |-> 9676,   \* U+25CC, the dotted circle of a combining mark
      PUA     |-> 57345 ] \* U+E001, has no line in UnicodeData.txt

Chars == DOMAIN Ord

\* str.lower / str.upper of one character
LowerCh(c) ==
    CASE c = "A" -> "a"
      [] c = "B" -> "b"
      [] c = "Auml" -> "auml"
      [] OTHER -> c

UpperCh(c) ==
    CASE c = "a" -> "A"
      [] c = "b" -> "B"
      [] c = "auml" -> "Auml"
      [] OTHER -> c

Lower(s) == [i \in 1..Len(s) |-> LowerCh(s[i])]

Upper(s) == [i \in 1..Len(s) |-> UpperCh(s[i])]

\* str.replace(old, new) for one-character old and new
Replace(s, old, new) == [i \in 1..Len(s) |-> IF s[i] = old THEN new ELSE s[i]]

\* s < t for Python strings: lexicographic by code point
StrLess(s, t) ==
    \E k \in 1..(Len(t)) :
        /\ \A j \in 1..(k - 1) : j <= Len(s) /\ s[j] = t[j]
        /\ \/ Len(s) = k - 1
           \/ Len(s) >= k /\ Ord[s[k]] < Ord[t[k]]

RECURSIVE Insert(_, _)
Insert(sorted, x) ==
    IF sorted = <<>> THEN <<x>>
    ELSE IF StrLess(x, Head(sorted)) THEN <<x>> \o sorted
    ELSE <<Head(sorted)>> \o Insert(Tail(sorted), x)

\* Python's sorted() of a list of strings (stable)
RECURSIVE Sorted(_)
Sorted(v) == IF v = <<>> THEN <<>> ELSE Insert(Sorted(SubSeq(v, 1, Len(v) - 1)), v[Len(v)])

\* ''.join(list of strings)
RECURSIVE Join(_)
Join(ss) == IF ss = <<>> THEN <<>> ELSE Head(ss) \o Join(Tail(ss))

\* x in list
InList(x, list) == \E i \in 1..Len(list) : list[i] = x

\* the number of elements of list equal to x
RECURSIVE Count(_, _)
Count(x, list) ==
    IF list = <<>> THEN 0
    ELSE (IF Head(list) = x THEN 1 ELSE 0) + Count(x, Tail(list))

\* itertools.product(*lists): the rightmost list advances fastest
RECURSIVE Product(_)
Product(lists) ==
    IF lists = <<>> THEN << <<>> >>
    ELSE LET rest == Product(Tail(lists))
             first == Head(lists)
         IN Join([i \in 1..Len(first) |->
                    [j \in 1..Len(rest) |-> <<first[i]>> \o rest[j]]])

(* ---------------------------------------------------------------------- *)
(* The escaping codec                                                     *)
(* ---------------------------------------------------------------------- *)

coreltrs == {"a", "b", "A", "B"}

COMBINING == <<"QM">>

\* ESCAPE.format(mapp)
ESCAPE(mapp) == <<"SP">> \o mapp

\* ESCAPE2.format(s)
ESCAPE2(s) == <<"TAB">> \o s \o <<"RET">>

\* LIGATURE.format(s)
LIGATURE(s) == <<"AMP">> \o s \o <<"RET">>

escape_1(mapp) ==
    IF Len(mapp) > 1 /\ mapp[1] \in coreltrs THEN ESCAPE(mapp) ELSE mapp

\* the assert of escape fails
escape_raises(maps) == ~(Len(maps) > 0)

escape(maps) ==
    IF Len(maps) = 1 THEN escape_1(maps[1])
    ELSE ESCAPE2(Join([i \in 1..Len(maps) |-> escape_1(maps[i])]))

(* ---------------------------------------------------------------------- *)
(* The tables the engine reads                                            *)
(* ---------------------------------------------------------------------- *)

VARIABLES
    udata,        \* the Property Index: the lines of UnicodeData.txt
    diacritics,   \* the diacritic registry: id -> prefix
    ligatures,    \* the ligature table: character -> components
    lines,        \* the lines of definitions.txt
    definitions,  \* character -> list of candidate sequences
    macros,       \* list of <<text, sequence>>
    cached,       \* the characters functools.cache holds a findmap result for
    runs,         \* character -> how many times the body of findmap has run
    raised,       \* "none", or the assertion that ended the run
    mdslog,       \* the calls of make_diacritic_sequences so far
    liglog,       \* the ligature expansions so far
    rules,        \* the global list of emitted key sequences
    stream,       \* the rule lines written: <<keys, result, comment>>
    warnings,     \* the warnings logged, in order
    sorted_file,  \* the lines of definitions_sorted.txt
    merged,       \* sort: the <<char, ruleno>> written as a combined line
    reread,       \* the tables read back from definitions_sorted.txt
    found,        \* the characters write_to_file has called findmap for
    snap,         \* what sort and the shadow pass saw when they ran
    calls,        \* the calls made so far by the caller of the engine or of add_rule
    lastcall,     \* the last call of the engine: result, table before and after
    pc, cp        \* main's position; write_to_file's loop index

vars == <<udata, diacritics, ligatures, lines, definitions, macros, cached, runs,
          raised, mdslog, liglog, rules, stream, warnings, sorted_file, merged,
          reread, found, snap, calls, lastcall, pc, cp>>

None == "None"

Chardata(name, cat, deco, upper, lower) ==
    [name |-> name, cat |-> cat, deco |-> deco, upper |-> upper, lower |-> lower]

\* what the defaultdict gives for a character with no line in UnicodeData.txt
UNNAMED == Chardata("UNNAMED", "Cn", <<>>, None, None)

\* udata[char]
Udata(char) == IF char \in DOMAIN udata THEN udata[char] ELSE UNNAMED

\* chr(int(x, 16)) of the words of the decomposition field
HexChr == ("0028" :> "LPAR") @@ ("0029" :> "RPAR") @@ ("0041" :> "A") @@
          ("0061" :> "a") @@ ("00E4" :> "auml") @@ ("0304" :> "MACR") @@
          ("0308" :> "DIAER")

\* UnicodeData.txt as main loads it; the decomposition field is kept as its
\* words.  circ and paren are the decomposition fields of U+24D0 and U+249C.
UnicodeData(circ, paren) ==
    [c \in Chars \ {"PUA"} |->
        CASE c = "A"      -> Chardata("LATIN CAPITAL LETTER A", "Lu", <<>>, None, "a")
          [] c = "B"      -> Chardata("LATIN CAPITAL LETTER B", "Lu", <<>>, None, "b")
          [] c = "a"      -> Chardata("LATIN SMALL LETTER A", "Ll", <<>>, "A", None)
          [] c = "b"      -> Chardata("LATIN SMALL LETTER B", "Ll", <<>>, "B", None)
          [] c = "Auml"   -> Chardata("LATIN CAPITAL LETTER A WITH DIAERESIS", "Lu",
                                      <<"0041", "0308">>, None, "auml")
          [] c = "auml"   -> Chardata("LATIN SMALL LETTER A WITH DIAERESIS", "Ll",
                                      <<"0061", "0308">>, "Auml", None)
          [] c = "adm"    -> Chardata("LATIN SMALL LETTER A WITH DIAERESIS AND MACRON",
                                      "Ll", <<"00E4", "0304">>, None, None)
          [] c = "DIAER"  -> Chardata("COMBINING DIAERESIS", "Mn", <<>>, None, None)
          [] c = "MACR"   -> Chardata("COMBINING MACRON", "Mn", <<>>, None, None)
          [] c = "CIRCA"  -> Chardata("CIRCLED LATIN SMALL LETTER A", "So", circ, None, None)
          [] c = "PARENA" -> Chardata("PARENTHESIZED LATIN SMALL LETTER A", "So", paren,
                                      None, None)
          [] OTHER        -> Chardata(c, "Po", <<>>, None, None)]

\* the Property Indexes of the model: the real fields, and fields whose
\* decomposition text is empty
UdataChoices ==
    { UnicodeData(<<"<circle>", "0061">>, <<"<compat>", "0028", "0061", "0029">>),
      UnicodeData(<<"<circle>">>,         <<"<compat>", "0028", "0061", "0029">>),
      UnicodeData(<<"<circle>", "0061">>, <<"<compat>", "0028">>),
      UnicodeData(<<"<circle>", "0061">>, <<"<compat>", "0028", "0029">>) }

\* unicodedata.normalize('NFD', char)
NFD(char) ==
    CASE char = "Auml" -> <<"A", "DIAER">>
      [] char = "auml" -> <<"a", "DIAER">>
      [] char = "adm"  -> <<"a", "DIAER", "MACR">>
      [] OTHER -> <<char>>

\* "◌" + x, the id of a combining mark
MarkId(x) == <<"DOTTED", x>>

\* data.diacritics with every id registered
DiacriticsData ==
    (<<"ascii">> :> <<"HASH">>) @@ (<<"parens">> :> <<"LPAR">>) @@
    (<<"<circle>">> :> <<"AT">>) @@ (<<"ring">> :> <<"STAR">>) @@
    (MarkId("DIAER") :> <<"CARET">>) @@ (MarkId("MACR") :> <<"UNDER">>)

\* the registries of the model: every id registered, or all but one
DiacriticsChoices ==
    { [d \in S |-> DiacriticsData[d]] :
        S \in {DOMAIN DiacriticsData} \cup
              { DOMAIN DiacriticsData \ {x} : x \in DOMAIN DiacriticsData } }

\* data.custom_dia: id -> (decompositions, characters), in dict order
custom_dia == << [dia |-> <<"ring">>, values |-> << << <<"a">> >>, <<"COPY">> >>] >>

\* data.ligatures
LigaturesChoices ==
    { ("LIG" :> <<"auml", "b">>), ("LIG" :> <<"a", "b">>), ("LIG" :> <<"CIRCA">>) }

\* the characters findmap leaves to definitions and custom_dia
GivenUp == {"COPY"}

(* ---------------------------------------------------------------------- *)
(* The derivation engine                                                  *)
(*                                                                        *)
(* getmap and findmap change the Definition table and the cache while     *)
(* they compute, so each operator takes the state of the engine and       *)
(* returns the state after the call, with the returned value in ret.      *)
(* An assertion that fails ends the run: every later step is skipped.     *)
(* ---------------------------------------------------------------------- *)

\* the state of the engine as the variables hold it
Engine ==
    [defs |-> definitions, cached |-> cached, runs |-> runs, raised |-> raised,
     mdslog |-> mdslog, liglog |-> liglog, ret |-> <<>>]

\* the assert of add_diacritic fails
add_diacritic_raises(diac) == ~(diac \in DOMAIN diacritics)

add_diacritic(keys, diac) == diacritics[diac] \o keys

\* reduce(add_diacritic, diacs, keys)
RECURSIVE reduce_add_diacritic(_, _)
reduce_add_diacritic(diacs, keys) ==
    IF diacs = <<>> THEN keys
    ELSE reduce_add_diacritic(Tail(diacs), add_diacritic(keys, Head(diacs)))

decompose(char) ==
    LET deco == Udata(char).deco
    IN IF deco = <<>> THEN [typ |-> None, text |-> <<char>>]
       ELSE LET tagged == Head(deco) \notin DOMAIN HexChr  \* words[0].startswith("<")
                words == IF tagged THEN Tail(deco) ELSE deco
            IN [typ |-> IF tagged THEN Head(deco) ELSE None,
                text |-> [i \in 1..Len(words) |-> HexChr[words[i]]]]

\* maps.extend(more), where maps is definitions[char]
Extend(st, char, more) == [st EXCEPT !.defs[char] = @ \o more]

\* findmap without functools.cache: the body runs at every call
cache_never_hit(st, char) == FALSE

\* functools.cache has a result for char
cache_hit(st, char) == char \in st.cached

\* the one element of a singleton set; The({F(s) : s \in {e}}) is F(e) with e
\* computed once
The(S) == CHOOSE x \in S : TRUE

\* maps.extend(st.ret) unless the call that left st raised
ExtendRet(st, char) == IF st.raised # "none" THEN st ELSE Extend(st, char, st.ret)

RECURSIVE getmap(_, _), findmap(_, _), getmap_all(_, _),
          make_diacritic_sequences(_, _, _), custom_dia_loop(_, _, _)

\* map(getmap, chars), consumed from left to right; ret is the list of results
getmap_all(st, chars) ==
    IF chars = <<>> THEN [st EXCEPT !.ret = <<>>]
    ELSE The({ IF s1.raised # "none" THEN s1
               ELSE The({ IF s2.raised # "none" THEN s2
                          ELSE [s2 EXCEPT !.ret = <<s1.ret>> \o s2.ret]
                          : s2 \in {getmap_all(s1, Tail(chars))} })
               : s1 \in {getmap(st, Head(chars))} })

\* what make_diacritic_sequences yields once product(*map(getmap, deco)) is
\* there: s1 is the state after the calls of getmap, s1.ret their results
diacritic_sequences(s1, diacs, deco) ==
    LET tuples == Product(s1.ret)
        fails == \E i \in 1..Len(tuples) : escape_raises(tuples[i])
        out == IF fails THEN <<>>
               ELSE [i \in 1..Len(tuples) |->
                        reduce_add_diacritic(diacs, escape(tuples[i]))]
    IN IF s1.raised # "none" THEN s1
       ELSE [s1 EXCEPT
               !.raised = IF fails THEN "escape" ELSE "none",
               !.ret = out,
               !.mdslog = @ \cup {[diacs |-> diacs, deco |-> deco, lists |-> s1.ret,
                                   out |-> out, raised |-> fails]}]

make_diacritic_sequences(st, diacs, deco) ==
    IF \E i \in 1..Len(diacs) : diacs[i] \notin DOMAIN diacritics
    THEN [st EXCEPT !.ret = <<>>,
                    !.mdslog = @ \cup {[diacs |-> diacs, deco |-> deco, lists |-> <<>>,
                                        out |-> <<>>, raised |-> FALSE]}]
    ELSE The({ diacritic_sequences(s1, diacs, deco) : s1 \in {getmap_all(st, deco)} })

getmap(st, char) ==
    IF st.raised # "none" THEN st
    ELSE IF char \in coreltrs THEN [st EXCEPT !.ret = << <<char>> >>]
    ELSE IF 33 <= Ord[char] /\ Ord[char] <= 126 /\ <<"ascii">> \in DOMAIN diacritics
    THEN IF add_diacritic_raises(<<"ascii">>) THEN [st EXCEPT !.raised = "add_diacritic"]
         ELSE [st EXCEPT !.ret = <<add_diacritic(<<char>>, <<"ascii">>)>>]
    ELSE findmap(st, char)

\* the loop of findmap over custom_dia.items(), from item k on
custom_dia_loop(st, char, k) ==
    IF st.raised # "none" \/ k > Len(custom_dia) THEN st
    ELSE LET dia == custom_dia[k].dia
             values == custom_dia[k].values
             hits == {i \in 1..Len(values[2]) : values[2][i] = char}
             index == CHOOSE i \in hits : \A j \in hits : i <= j
         IN IF hits = {} THEN custom_dia_loop(st, char, k + 1)
            ELSE The({ custom_dia_loop(ExtendRet(s1, char), char, k + 1)
                       : s1 \in {make_diacritic_sequences(st, <<dia>>, values[1][index])} })

\* findmap: combining diacritic
combining_step(st, char) ==
    IF st.raised = "none" /\ MarkId(char) \in DOMAIN diacritics
    THEN IF add_diacritic_raises(MarkId(char)) THEN [st EXCEPT !.raised = "add_diacritic"]
         ELSE Extend(st, char, <<add_diacritic(COMBINING, MarkId(char))>>)
    ELSE st

\* findmap: canonical decomposition
canonical_step(st, char) ==
    LET normal == NFD(char)
    IN IF st.raised = "none" /\ Len(normal) > 1
       THEN The({ ExtendRet(m, char)
                  : m \in {make_diacritic_sequences(
                              st, [i \in 1..(Len(normal) - 1) |-> MarkId(normal[i + 1])],
                              <<normal[1]>>)} })
       ELSE st

\* findmap: compatibility decomposition
compatibility_step(st, char) ==
    LET d == decompose(char)
        parens == /\ d.typ = "<compat>" /\ d.text # <<>>
                  /\ d.text[1] = "LPAR" /\ d.text[Len(d.text)] = "RPAR"
    IN IF st.raised # "none" THEN st
       ELSE IF parens
       THEN The({ ExtendRet(m, char)
                  : m \in {make_diacritic_sequences(st, << <<"parens">> >>,
                                                    SubSeq(d.text, 2, Len(d.text) - 1))} })
       ELSE IF d.typ # None
       THEN The({ ExtendRet(m, char)
                  : m \in {make_diacritic_sequences(st, << <<d.typ>> >>, d.text)} })
       ELSE st

\* the candidates of the ligature step, given the results of getmap for the
\* components
ligature_sequences(lists) ==
    LET prod == Product(lists)
    IN [i \in 1..Len(prod) |-> LIGATURE(Join(prod[i]))]

\* findmap: makes ligatures
ligature_step(st, char) ==
    IF st.raised = "none" /\ char \in DOMAIN ligatures
    THEN The({ IF m.raised # "none" THEN m
               ELSE [Extend(m, char, ligature_sequences(m.ret)) EXCEPT
                       !.liglog = @ \cup {[char |-> char, lists |-> m.ret,
                                           out |-> ligature_sequences(m.ret)]}]
               : m \in {getmap_all(st, ligatures[char])} })
    ELSE st

\* findmap returns maps, and functools.cache keeps it
findmap_return(st, char) ==
    IF st.raised # "none" THEN st
    ELSE [st EXCEPT !.cached = @ \cup {char}, !.ret = st.defs[char]]

findmap(st, char) ==
    IF cache_hit(st, char) THEN [st EXCEPT !.ret = st.defs[char]]
    ELSE The({ IF char \in GivenUp THEN findmap_return(s1, char)
               ELSE The({ findmap_return(s5, char)
                  : s5 \in { ligature_step(s4, char)
                  : s4 \in { compatibility_step(s3, char)
                  : s3 \in { canonical_step(s2, char)
                  : s2 \in { combining_step(s1, char) } } } } })
               : s1 \in {custom_dia_loop([st EXCEPT !.runs[char] = @ + 1], char, 1)} })

(* ---------------------------------------------------------------------- *)
(* definitions.txt and definitions_sorted.txt                             *)
(*                                                                        *)
(* A file is the list of its lines, each without its newline.             *)
(* ---------------------------------------------------------------------- *)

\* char + "::" + mapp
DefLine(char, mapp) == char \o <<"COLON", "COLON">> \o mapp

\* line.isspace(), the newline of the line included
isspace(line) == \A i \in 1..Len(line) : line[i] = "SP"

\* line.startswith("//")
is_comment(line) == Len(line) >= 2 /\ line[1] = "SLASH" /\ line[2] = "SLASH"

\* where the first "::" of line starts, 0 when it has none
find_sep(line) ==
    LET at == {i \in 1..(Len(line) - 1) : line[i] = "COLON" /\ line[i + 1] = "COLON"}
    IN IF at = {} THEN 0 ELSE CHOOSE i \in at : \A j \in at : i <= j

\* one turn of the loop of read_from_file; t holds definitions, macros and
\* whether the line could not be unpacked
read_line(t, line) ==
    IF t.failed \/ isspace(line) \/ is_comment(line) THEN t
    ELSE LET sep == find_sep(line)
             left == SubSeq(line, 1, sep - 1)
             char == IF left[1] = "DOTTED" /\ Len(left) > 1 THEN <<left[2]>> ELSE left
             mapp == Replace(SubSeq(line, sep + 2, Len(line)), "OPENBOX", "SP")
         IN IF sep = 0 \/ left = <<>> THEN [t EXCEPT !.failed = TRUE]
            ELSE IF Len(char) = 2 /\ Udata(char[1]).lower = char[2]
            THEN [t EXCEPT !.defs[char[1]] = Append(@, Upper(mapp)),
                           !.defs[char[2]] = Append(@, Lower(mapp))]
            ELSE IF Len(char) > 1
            THEN [t EXCEPT !.macros = Append(@, <<char, mapp>>)]
            ELSE [t EXCEPT !.defs[char[1]] = Append(@, mapp)]

RECURSIVE read_from_file(_, _)
read_from_file(t, f) ==
    IF f = <<>> THEN t ELSE read_from_file(read_line(t, Head(f)), Tail(f))

\* the tables before anything is read
EmptyTables == [defs |-> [c \in Chars |-> <<>>], macros |-> <<>>, failed |-> FALSE]

\* Blocks.txt as main loads it: a name keeps the newline of its line
blocks ==
    << [start |-> 0,   end |-> 127, name |-> "Basic Latin\n"],
       [start |-> 128, end |-> 255, name |-> "Latin-1 Supplement\n"],
       [start |-> 768, end |-> 879, name |-> "Combining Diacritical Marks\n"] >>

block_of(char) ==
    LET in == {i \in 1..Len(blocks) :
                  blocks[i].start <= Ord[char] /\ Ord[char] <= blocks[i].end}
    IN IF in = {} THEN "not assigned"
       ELSE blocks[CHOOSE i \in in : \A j \in in : i <= j].name

\* "\n// " + new.upper() + "\n" as lines; the text of a comment is kept as one
\* opaque word, and the newline of a name of Blocks.txt ends one more line
BlockLines(name) ==
    << <<>>, <<"SLASH", "SLASH", "SP", name>> >> \o
    (IF name = "not assigned" THEN <<>> ELSE << <<>> >>)

\* the keys of the dict in the order of sorted(definitions.items(), key=ord)
RECURSIVE by_ord(_)
by_ord(cs) ==
    IF cs = {} THEN <<>>
    ELSE LET c == CHOOSE x \in cs : \A y \in cs : Ord[x] <= Ord[y]
         IN <<c>> \o by_ord(cs \ {c})

\* the index sort reads definitions[low] and definitions[upp] at, for the rule
\* at index ruleno of sorted(v)
pair_rule(defs, who, ruleno) == defs[who][ruleno]

\* the loop of sort over enumerate(sorted(v)), from index ruleno on; o holds
\* the lines written, the ignore list and the merged <<char, ruleno>>
RECURSIVE sort_rules(_, _, _, _)
sort_rules(o, defs, char, ruleno) ==
    LET v == Sorted(defs[char])
        rule == v[ruleno]
        data == Udata(char)
        low == IF data.lower # None THEN data.lower ELSE char
        upp == IF data.upper # None THEN data.upper ELSE char
        lowupper == IF Udata(low).upper # None THEN Udata(low).upper ELSE "a"
        paired == low # upp /\ char \in {upp, low} /\ Udata(lowupper).lower = low
        inrange == ruleno <= Len(defs[low]) /\ ruleno <= Len(defs[upp])
        lrule == pair_rule(defs, low, ruleno)
        urule == pair_rule(defs, upp, ruleno)
        mark == IF data.cat \in {"Mc", "Me", "Mn", "Lm"} THEN <<"DOTTED">> ELSE <<>>
    IN IF ruleno > Len(v) THEN o
       ELSE IF InList(Lower(rule), o.ignore) THEN sort_rules(o, defs, char, ruleno + 1)
       ELSE IF paired /\ inrange /\ lrule = Lower(urule)
       THEN sort_rules([o EXCEPT
                          !.ignore = Append(@, lrule),
                          !.merged = @ \cup {<<char, ruleno>>},
                          !.f = Append(@, DefLine(<<upp, low>>,
                                                  Replace(lrule, "SP", "OPENBOX")))],
                       defs, char, ruleno + 1)
       ELSE sort_rules([o EXCEPT
                          !.f = Append(@, DefLine(mark \o <<char>>,
                                                  Replace(rule, "SP", "OPENBOX")))],
                       defs, char, ruleno + 1)

\* the loop of sort over the characters
RECURSIVE sort_chars(_, _, _)
sort_chars(o, defs, chars) ==
    IF chars = <<>> THEN o
    ELSE LET char == Head(chars)
             new == block_of(char)
             o1 == IF o.last_block # new
                   THEN [o EXCEPT !.last_block = new,
                                  !.f = @ \o BlockLines(new)]
                   ELSE o
         IN sort_chars(sort_rules(o1, defs, char, 1), defs, Tail(chars))

\* sort: the lines of definitions_sorted.txt, and which rules were merged
sort(defs, mcrs) ==
    LET o0 == [f |-> << <<"SLASH", "SLASH", "SP", "generated">> >>, ignore |-> <<>>,
               merged |-> {}, last_block |-> "not assigned\n"]
        o1 == sort_chars(o0, defs, by_ord({c \in Chars : defs[c] # <<>>}))
    IN [o1 EXCEPT !.f = @ \o << <<>>, <<"SLASH", "SLASH", "SP", "MACROS">>, <<>> >>
                         \o [i \in 1..Len(mcrs) |->
                               DefLine(mcrs[i][1], Replace(mcrs[i][2], "SP", "OPENBOX"))]]

(* ---------------------------------------------------------------------- *)
(* Rule emission                                                          *)
(* ---------------------------------------------------------------------- *)

CHECK == TRUE

\* replacements.get(i, i): the key name of one symbol
replacements(i) ==
    CASE i = "TAB" -> "Tab"
      [] i = "RET" -> "Return"
      [] i = "COLON" -> "colon"
      [] OTHER -> i

\* the state add_rule works on, as the variables hold it
Emitted == [rules |-> rules, stream |-> stream, warnings |-> warnings]

\* add_rule with the rule appended before the list is searched for it
add_rule_append_first(e, keys, result, comment) ==
    LET line == [keys |-> [i \in 1..Len(keys) |-> replacements(keys[i])],
                 result |-> result, comment |-> comment]
        warn == IF CHECK /\ InList(keys, Append(e.rules, keys))
                THEN <<[kind |-> "duplicate", keys |-> keys, of |-> <<>>,
                        comment |-> comment]>>
                ELSE <<>>
    IN [rules |-> Append(e.rules, keys),
        stream |-> Append(e.stream, line),
        warnings |-> e.warnings \o warn]

\* add_rule; no text of the model holds a double quote, so result.replace
\* leaves result as it is
add_rule(e, keys, result, comment) ==
    LET line == [keys |-> [i \in 1..Len(keys) |-> replacements(keys[i])],
                 result |-> result, comment |-> comment]
        warn == IF CHECK /\ InList(keys, e.rules)
                THEN <<[kind |-> "duplicate", keys |-> keys, of |-> <<>>,
                        comment |-> comment]>>
                ELSE <<>>
    IN [rules |-> Append(e.rules, keys),
        stream |-> Append(e.stream, line),
        warnings |-> e.warnings \o warn]

\* for rule in list: add_rule(f, rule, result, comment)
RECURSIVE add_rules(_, _, _, _)
add_rules(e, list, result, comment) ==
    IF list = <<>> THEN e
    ELSE add_rules(add_rule(e, Head(list), result, comment), Tail(list), result, comment)

\* for text, rule in macros: add_rule(f, rule, text, "macro")
RECURSIVE add_macros(_, _)
add_macros(e, mcrs) ==
    IF mcrs = <<>> THEN e
    ELSE add_macros(add_rule(e, Head(mcrs)[2], Head(mcrs)[1], "macro"), Tail(mcrs))

\* range(1, len(rule) + 1): the rule itself counted among its prefixes
prefix_lengths_with_rule(rule) == 1..Len(rule)

\* range(1, len(rule))
prefix_lengths(rule) == 1..(Len(rule) - 1)

\* the shadow warnings of one rule, from prefix length n on
RECURSIVE shadows_of(_, _, _)
shadows_of(list, rule, n) ==
    IF n \notin prefix_lengths(rule) THEN <<>>
    ELSE (IF InList(SubSeq(rule, 1, n), list)
          THEN <<[kind |-> "shadow", keys |-> SubSeq(rule, 1, n), of |-> rule,
                  comment |-> ""]>>
          ELSE <<>>) \o shadows_of(list, rule, n + 1)

\* the shadow pass of write_to_file: its warnings, in order
look_for_shadows(list) ==
    IF CHECK THEN Join([i \in 1..Len(list) |-> shadows_of(list, list[i], 1)]) ELSE <<>>

\* the characters of range(0x1FFFF), in order
Range == by_ord({c \in Chars : Ord[c] < 131071})

\* udata[chr(cp)] raises KeyError: never, udata is a defaultdict
KeyError(char) == FALSE

\* the loop over the code points left after its first turn
write_done_after_first(i) == i > 1

\* the loop of write_to_file over the code points is over
write_done(i) == i > Len(Range)

(* ---------------------------------------------------------------------- *)
(* The inputs of a run                                                    *)
(* ---------------------------------------------------------------------- *)

\* lines an author may write in definitions.txt
LineChoices ==
    { DefLine(<<"Auml">>, <<"B">>),
      DefLine(<<"Auml">>, <<"A">>),
      DefLine(<<"auml">>, <<"a">>),
      DefLine(<<"auml">>, <<"b">>),
      DefLine(<<"Auml", "auml">>, <<"a", "b">>),
      DefLine(<<"Auml">>, <<"A", "b">>),
      DefLine(<<"auml">>, <<"a", "b">>),
      DefLine(<<"a", "b">>, <<"a">>),
      DefLine(<<"DOTTED", "DIAER">>, <<"b", "OPENBOX">>),
      DefLine(<<"PUA">>, <<"a">>) }

\* the longest definitions.txt the sorted file is checked on
MaxLines == 3

Files == UNION { [1..n -> LineChoices] : n \in 0..MaxLines }

\* the definitions.txt of the runs of main and of the calls of the engine
MainFiles ==
    { <<>>,
      << DefLine(<<"auml">>, <<"a", "b">>), DefLine(<<"PUA">>, <<"a">>),
         DefLine(<<"a", "b">>, <<"a">>) >>,
      << DefLine(<<"Auml", "auml">>, <<"a", "b">>),
         DefLine(<<"DOTTED", "DIAER">>, <<"b", "OPENBOX">>),
         <<"SLASH", "SLASH", "SP", "comment">>, <<>> >>,
      << DefLine(<<"CIRCA">>, <<"a", "b">>), DefLine(<<"auml">>, <<"CARET", "a">>) >> }

NoCall == [kind |-> "none", char |-> "a", ret |-> <<>>, first |-> <<>>, again |-> FALSE,
           before |-> EmptyTables.defs, after |-> EmptyTables.defs]

NoSnap == [sorted |-> FALSE, sortdefs |-> EmptyTables.defs, sortfound |-> {},
           shadowed |-> FALSE, shadowdefs |-> EmptyTables.defs, shadowfound |-> {}]

\* everything but the inputs and main's position, before main has done anything
Blank ==
    /\ definitions = EmptyTables.defs
    /\ macros = <<>>
    /\ cached = {}
    /\ runs = [c \in Chars |-> 0]
    /\ raised = "none"
    /\ mdslog = {}
    /\ liglog = {}
    /\ rules = <<>>
    /\ stream = <<>>
    /\ warnings = <<>>
    /\ sorted_file = <<>>
    /\ merged = {}
    /\ reread = EmptyTables
    /\ found = {}
    /\ snap = NoSnap
    /\ calls = <<>>
    /\ lastcall = NoCall
    /\ cp = 1

Init ==
    /\ udata \in UdataChoices
    /\ diacritics \in DiacriticsChoices
    /\ ligatures \in LigaturesChoices
    /\ lines \in MainFiles
    /\ pc = "read"
    /\ Blank

(* ---------------------------------------------------------------------- *)
(* main                                                                   *)
(* ---------------------------------------------------------------------- *)

Tables == <<udata, diacritics, ligatures, lines>>

EngineVars == <<cached, runs, mdslog, liglog>>

RuleVars == <<rules, stream, warnings>>

\* main: read_from_file(f) on definitions.txt
ReadFromFile ==
    /\ pc = "read"
    /\ LET t == read_from_file(EmptyTables, lines)
       IN /\ definitions' = t.defs
          /\ macros' = t.macros
          /\ raised' = IF t.failed THEN "unpack" ELSE "none"
          /\ pc' = IF t.failed THEN "done" ELSE "sort"
    /\ UNCHANGED <<Tables, EngineVars, RuleVars, sorted_file, merged, reread, found,
                   snap, calls, lastcall, cp>>

\* main: sort(definitions, macros)
SortDefinitions ==
    /\ pc = "sort"
    /\ LET o == sort(definitions, macros)
       IN /\ sorted_file' = o.f
          /\ merged' = o.merged
    /\ snap' = [snap EXCEPT !.sorted = TRUE, !.sortdefs = definitions,
                            !.sortfound = found]
    /\ pc' = "write"
    /\ UNCHANGED <<Tables, definitions, macros, EngineVars, raised, RuleVars, reread,
                   found, calls, lastcall, cp>>

\* write_to_file: one turn of the loop over the code points
WriteChar ==
    /\ pc = "write"
    /\ ~write_done(cp)
    /\ LET char == Range[cp]
           st == IF KeyError(char) THEN Engine ELSE findmap(Engine, char)
           e == IF KeyError(char) \/ st.raised # "none" THEN Emitted
                ELSE add_rules(Emitted, st.ret, <<char>>, Udata(char).name)
       IN /\ definitions' = st.defs
          /\ cached' = st.cached
          /\ runs' = st.runs
          /\ raised' = st.raised
          /\ mdslog' = st.mdslog
          /\ liglog' = st.liglog
          /\ rules' = e.rules
          /\ stream' = e.stream
          /\ warnings' = e.warnings
          /\ found' = IF KeyError(char) THEN found ELSE found \cup {char}
          /\ pc' = IF st.raised # "none" THEN "done" ELSE "write"
    /\ cp' = cp + 1
    /\ UNCHANGED <<Tables, macros, sorted_file, merged, reread, snap, calls, lastcall>>

\* write_to_file: the loop over the macros
WriteMacros ==
    /\ pc = "write"
    /\ write_done(cp)
    /\ LET e == add_macros(Emitted, macros)
       IN /\ rules' = e.rules
          /\ stream' = e.stream
          /\ warnings' = e.warnings
    /\ pc' = "shadows"
    /\ UNCHANGED <<Tables, definitions, macros, EngineVars, raised, sorted_file, merged,
                   reread, found, snap, calls, lastcall, cp>>

\* write_to_file: the shadow pass
LookForShadows ==
    /\ pc = "shadows"
    /\ warnings' = warnings \o look_for_shadows(rules)
    /\ snap' = [snap EXCEPT !.shadowed = TRUE, !.shadowdefs = definitions,
                            !.shadowfound = found]
    /\ pc' = "done"
    /\ UNCHANGED <<Tables, definitions, macros, EngineVars, raised, rules, stream,
                   sorted_file, merged, reread, found, calls, lastcall, cp>>

Next == ReadFromFile \/ SortDefinitions \/ WriteChar \/ WriteMacros \/ LookForShadows

Spec == Init /\ [][Next]_vars

(* ---------------------------------------------------------------------- *)
(* The engine called in any order                                         *)
(* ---------------------------------------------------------------------- *)

\* the characters a caller asks for; the others are reached by recursion
CallChars == {"a", "LPAR", "auml", "adm", "CIRCA", "PARENA", "LIG", "COPY", "DIAER"}

\* the number of calls a caller makes
MaxCalls == 2

InitDerive ==
    /\ udata \in UdataChoices
    /\ diacritics \in DiacriticsChoices
    /\ ligatures \in LigaturesChoices
    /\ lines \in {f \in MainFiles : Len(f) \in {2, 3}}
    /\ pc = "read"
    /\ Blank

\* the caller calls op (getmap or findmap) for char and keeps what it sees
Call(kind, char, st) ==
    /\ pc = "derive"
    /\ raised = "none"
    /\ Len(calls) < MaxCalls
    /\ LET earlier == {i \in 1..Len(calls) :
                          calls[i].kind = kind /\ calls[i].char = char}
           first == IF earlier = {} THEN st.ret
                    ELSE calls[CHOOSE i \in earlier : \A j \in earlier : i <= j].ret
       IN /\ lastcall' = [kind |-> kind, char |-> char, ret |-> st.ret, first |-> first,
                          again |-> earlier # {}, before |-> definitions,
                          after |-> st.defs]
          /\ calls' = Append(calls, [kind |-> kind, char |-> char, ret |-> st.ret])
    /\ definitions' = st.defs
    /\ cached' = st.cached
    /\ runs' = st.runs
    /\ raised' = st.raised
    /\ mdslog' = st.mdslog
    /\ liglog' = st.liglog
    /\ UNCHANGED <<Tables, macros, RuleVars, sorted_file, merged, reread, found, snap,
                   pc, cp>>

\* definitions.txt is read, then the engine is called
ReadForCalls ==
    /\ pc = "read"
    /\ LET t == read_from_file(EmptyTables, lines)
       IN /\ definitions' = t.defs
          /\ macros' = t.macros
    /\ pc' = "derive"
    /\ UNCHANGED <<Tables, EngineVars, raised, RuleVars, sorted_file, merged, reread,
                   found, snap, calls, lastcall, cp>>

CallGetmap == \E char \in CallChars : Call("getmap", char, getmap(Engine, char))

CallFindmap == \E char \in CallChars : Call("findmap", char, findmap(Engine, char))

NextDerive == ReadForCalls \/ CallGetmap \/ CallFindmap

SpecDerive == InitDerive /\ [][NextDerive]_vars

(* ---------------------------------------------------------------------- *)
(* The sorted file written and read back                                  *)
(* ---------------------------------------------------------------------- *)

InitSort ==
    /\ udata = UnicodeData(<<"<circle>", "0061">>, <<"<compat>", "0028", "0061", "0029">>)
    /\ diacritics = DiacriticsData
    /\ ligatures = ("LIG" :> <<"a", "b">>)
    /\ lines \in Files
    /\ pc = "read"
    /\ Blank

\* read_from_file on definitions_sorted.txt, into empty tables
ReadBack ==
    /\ pc = "write"
    /\ reread' = read_from_file(EmptyTables, sorted_file)
    /\ pc' = "reread"
    /\ UNCHANGED <<Tables, definitions, macros, EngineVars, raised, RuleVars,
                   sorted_file, merged, found, snap, calls, lastcall, cp>>

NextSort == ReadFromFile \/ SortDefinitions \/ ReadBack

SpecSort == InitSort /\ [][NextSort]_vars

(* ---------------------------------------------------------------------- *)
(* add_rule called with any rules, then the shadow pass                   *)
(* ---------------------------------------------------------------------- *)

\* the key sequences a caller emits
RuleKeys == { <<"a">>, <<"a", "b">>, <<"b", "a">>, <<"a", "b", "a">> }

\* the number of rules a caller emits
MaxRules == 4

InitRules ==
    /\ udata = UnicodeData(<<"<circle>", "0061">>, <<"<compat>", "0028", "0061", "0029">>)
    /\ diacritics = DiacriticsData
    /\ ligatures = ("LIG" :> <<"a", "b">>)
    /\ lines = <<>>
    /\ pc \in {"rules", "shadows"}
    /\ Blank

\* add_rule(f, keys, result, comment); last: it is the last rule emitted
AddRule ==
    /\ pc = "rules"
    /\ Len(calls) < MaxRules
    /\ \E keys \in RuleKeys, result \in {<<"auml">>, <<"a", "b">>}, last \in BOOLEAN :
        LET e == add_rule(Emitted, keys, result,
                          IF Len(result) = 1 THEN Udata(result[1]).name ELSE "macro")
        IN /\ rules' = e.rules
           /\ stream' = e.stream
           /\ warnings' = e.warnings
           /\ calls' = Append(calls, [keys |-> keys, result |-> result])
           /\ pc' = IF last THEN "shadows" ELSE "rules"
    /\ UNCHANGED <<Tables, definitions, macros, EngineVars, raised, sorted_file, merged,
                   reread, found, snap, lastcall, cp>>

NextRules == AddRule \/ LookForShadows

SpecRules == InitRules /\ [][NextRules]_vars

(* ---------------------------------------------------------------------- *)
(* Properties                                                             *)
(* ---------------------------------------------------------------------- *)

IsPrefix(s, t) == Len(s) <= Len(t) /\ SubSeq(t, 1, Len(s)) = s

Elems(list) == {list[i] : i \in 1..Len(list)}

AllRange == Elems(Range)

\* C1: the projection never calls findmap for a code point of the range that
\* has no line in the Property Index, and emits no rule producing it
C1_UnnamedNeverDerived ==
    \A c \in AllRange \ DOMAIN udata :
        /\ c \notin found
        /\ \A i \in 1..Len(stream) : stream[i].result # <<c>>

\* C2: getmap never raises: neither the assert of escape nor the assert of
\* add_diacritic ends a call, whatever the tables hold
C2_GetmapNeverRaises == raised = "none"

\* the <<prefix, rule>> of the shadow warnings logged
ShadowWarnings ==
    {<<warnings[i].keys, warnings[i].of>> :
        i \in {j \in 1..Len(warnings) : warnings[j].kind = "shadow"}}

\* the <<p, r>> with r a rule, p a strict non-empty prefix of r, p a rule
ShadowPairs ==
    UNION { { <<SubSeq(r, 1, n), r>> :
                n \in {m \in 1..(Len(r) - 1) : SubSeq(r, 1, m) \in Elems(rules)} } :
            r \in Elems(rules) }

\* C3: once the shadow pass has run, p is warned to shadow r exactly when r is
\* a rule, p a strict non-empty prefix of r and p the sequence of a rule;
\* "ab", "ba" give no warning and "a", "ab" give the warning that a shadows ab
C3_ShadowWarnings ==
    /\ pc # "done" => ShadowWarnings = {}
    /\ pc = "done" => ShadowWarnings = ShadowPairs
    /\ pc = "done" /\ rules = << <<"a", "b">>, <<"b", "a">> >> => ShadowWarnings = {}
    /\ pc = "done" /\ rules = << <<"a">>, <<"a", "b">> >>
          => ShadowWarnings = { << <<"a">>, <<"a", "b">> >> }

C3_Witness ==
    /\ pc = "done"
    /\ rules = << <<"a">>, <<"a", "b">> >>
    /\ \E i \in 1..Len(warnings) :
          warnings[i].kind = "shadow" /\ warnings[i].keys = <<"a">>
          /\ warnings[i].of = <<"a", "b">>

\* the sequences of the duplicate warnings logged, in order
DuplicateWarnings ==
    LET at == {j \in 1..Len(warnings) : warnings[j].kind = "duplicate"}
        F[i \in 0..Len(warnings)] ==
            IF i = 0 THEN <<>>
            ELSE IF i \in at THEN Append(F[i - 1], warnings[i].keys) ELSE F[i - 1]
    IN F[Len(warnings)]

\* the sequences asked for that had been asked for before, in order
Repeated ==
    LET F[i \in 0..Len(calls)] ==
            IF i = 0 THEN <<>>
            ELSE IF \E j \in 1..(i - 1) : calls[j].keys = calls[i].keys
                 THEN Append(F[i - 1], calls[i].keys) ELSE F[i - 1]
    IN F[Len(calls)]

\* C4: a duplicate warning is logged once for each insertion of a sequence
\* already in the rule list (k insertions give k - 1 warnings), the run goes
\* on, and every inserted rule is kept in the list and written to the output
C4_DuplicateWarnings ==
    /\ DuplicateWarnings = Repeated
    /\ \A k \in RuleKeys :
          Count(k, DuplicateWarnings) =
              IF Count(k, rules) = 0 THEN 0 ELSE Count(k, rules) - 1
    /\ rules = [i \in 1..Len(calls) |-> calls[i].keys]
    /\ Len(stream) = Len(calls)
    /\ \A i \in 1..Len(calls) :
          /\ stream[i].result = calls[i].result
          /\ stream[i].keys = [j \in 1..Len(calls[i].keys) |-> replacements(calls[i].keys[j])]
    /\ raised = "none"

C4_Witness ==
    /\ Count(<<"a">>, rules) = 3
    /\ Count(<<"a">>, DuplicateWarnings) = 2
    /\ Len(stream) = 3

\* low and upp as sort computes them for char
LowOf(char) == IF Udata(char).lower # None THEN Udata(char).lower ELSE char

UppOf(char) == IF Udata(char).upper # None THEN Udata(char).upper ELSE char

\* C5: for a character with a distinct case counterpart, the candidate at
\* index i of its sorted list is written as one combined line exactly when
\* the sorted lists of the lowercase and of the uppercase character agree at
\* index i up to case, and a merged sequence is not written again on a line
\* of either character
C5_MergeAtSortedIndex ==
    snap.sorted =>
        \A char \in Chars :
            LET low == LowOf(char)
                upp == UppOf(char)
                sl == Sorted(definitions[low])
                su == Sorted(definitions[upp])
            IN low # upp /\ char \in {low, upp} =>
                 \A i \in 1..Len(definitions[char]) :
                    /\ <<char, i>> \in merged
                         <=> (i <= Len(sl) /\ i <= Len(su) /\ sl[i] = Lower(su[i]))
                    /\ <<char, i>> \in merged =>
                          /\ ~InList(DefLine(<<low>>, Replace(sl[i], "SP", "OPENBOX")),
                                     sorted_file)
                          /\ ~InList(DefLine(<<upp>>, Replace(su[i], "SP", "OPENBOX")),
                                     sorted_file)

\* C6: reading the sorted file back into empty tables gives the same macro
\* list and, for every character, the same candidates with the same counts
C6_SortedFileRoundTrip ==
    pc = "reread" =>
        /\ ~reread.failed
        /\ reread.macros = macros
        /\ \A c \in Chars :
              \A k \in Elems(definitions[c]) \cup Elems(reread.defs[c]) :
                  Count(k, reread.defs[c]) = Count(k, definitions[c])

C8_LigatureEscaped ==
    \A e \in liglog :
        LET prod == Product(e.lists)
        IN /\ Len(e.out) = Len(prod)
           /\ \A i \in 1..Len(prod) :
                 e.out[i] = LIGATURE(Join([j \in 1..Len(prod[i]) |-> escape_1(prod[i][j])]))

\* prefix(dn) ++ ... ++ prefix(d1)
RECURSIVE PrefixChain(_)
PrefixChain(diacs) ==
    IF diacs = <<>> THEN <<>> ELSE PrefixChain(Tail(diacs)) \o diacritics[Head(diacs)]

RECURSIVE ProductOfLens(_)
ProductOfLens(lists) ==
    IF lists = <<>> THEN 1 ELSE Len(Head(lists)) * ProductOfLens(Tail(lists))

\* what C9 says of one call of make_diacritic_sequences
DiacriticLaw(e) ==
    IF \E i \in 1..Len(e.diacs) : e.diacs[i] \notin DOMAIN diacritics
    THEN e.out = <<>> /\ ~e.raised
    ELSE /\ ~e.raised
         /\ Len(e.lists) = Len(e.deco)
         /\ Len(e.out) = ProductOfLens(e.lists)
         /\ \A i \in 1..Len(e.out) :
               e.out[i] = PrefixChain(e.diacs) \o escape(Product(e.lists)[i])

\* C9: make_diacritic_sequences yields nothing when an id is not registered,
\* and otherwise one candidate per element of the product of getmap over the
\* characters of deco, each prefix(dn) ++ ... ++ prefix(d1) ++ escape(tuple)
C9_DiacriticSequences == \A e \in mdslog : DiacriticLaw(e)

\* the same for the calls whose decomposition text is not empty
DiacriticSequencesOfText == \A e \in mdslog : e.deco # <<>> => DiacriticLaw(e)

\* C10: the body of findmap runs at most once per character, a call only
\* appends to the entries of the Definition table, and a repeated call
\* returns what the first call returned and leaves the table as it was
C10_MemoizedAppendOnly ==
    /\ \A c \in Chars : runs[c] <= 1
    /\ \A c \in cached : runs[c] = 1
    /\ \A c \in Chars : IsPrefix(lastcall.before[c], lastcall.after[c])
    /\ lastcall.kind # "none" => lastcall.after = definitions
    /\ lastcall.again =>
          /\ lastcall.ret = lastcall.first
          /\ lastcall.before = lastcall.after

C10_Witness ==
    /\ lastcall.again
    /\ lastcall.kind = "findmap"
    /\ lastcall.char = "LIG"
    /\ Len(lastcall.ret) > 1
    /\ runs["LIG"] = 1
    /\ runs["auml"] = 1

====
